---- MODULE Spec2Model ----
(***************************************************************************)
(* gddb command line tool (src/src/main.rs): opening the record stores of  *)
(* an installation, merging the item tag tables, and the four commands     *)
(* show, loot-table, item and ls.                                          *)
(*                                                                         *)
(* Strings are sequences of character codes (ASCII values), so that        *)
(* prefix tests, substring tests, tokenisation, path splitting and sorting *)
(* are computed, not assumed.                                              *)
(***************************************************************************)
EXTENDS Integers, Sequences, FiniteSets, TLC

VARIABLES
    fs_db,      \* the store files under the install path (DB_GD .. DB_FOA), by pack
    fs_tags,    \* the tag archives under the install path (TAGS_GD .. TAGS_FOA), by pack
    args,       \* Args: xpac, the subcommand and its arguments
    pc,         \* where main is: "open_dbs", "read_item_tags", "cmd", "exit"
    dbs,        \* main's dbs: the Selection Set
    item_tags,  \* main's item_tags: the Tag Table
    stdout,     \* what print! and println! wrote
    stderr,     \* what eprintln! and panics wrote
    exit        \* <<>> while the process runs, then <<its exit status>>

vars == <<fs_db, fs_tags, args, pc, dbs, item_tags, stdout, stderr, exit>>

(***************************************************************************)
(* Bounds of the model.                                                    *)
(***************************************************************************)
\* Most raw records held by all store files of an installation together.
MaxRecs == 3
\* Most tag entries held by all tag archives of an installation together.
MaxTags == 2

(***************************************************************************)
(* Characters and strings.                                                 *)
(***************************************************************************)
Slash == 47
\* U+FFFD, what to_string_lossy puts in place of an invalid unit.
Replacement == 65533
\* A unit of an OsString that is not valid Unicode.
InvalidUnit == 255
PanicCode == 101

AsciiWhitespace == {9, 10, 12, 13, 32}

Range(s) == {s[i] : i \in 1..Len(s)}

\* OsString::to_string_lossy
ToStringLossy(os) == [i \in 1..Len(os) |-> IF os[i] = InvalidUnit THEN Replacement ELSE os[i]]

\* str::starts_with
StartsWith(s, p) == Len(p) <= Len(s) /\ SubSeq(s, 1, Len(p)) = p

\* str::contains
StrContains(s, part) ==
    \E i \in 0..(Len(s) - Len(part)) : SubSeq(s, i + 1, i + Len(part)) = part

\* Ord for String: byte-wise lexicographic
StrLess(a, b) ==
    \E i \in 1..(Len(b)) :
        /\ i <= Len(a) + 1
        /\ SubSeq(a, 1, i - 1) = SubSeq(b, 1, i - 1)
        /\ (i = Len(a) + 1 \/ a[i] < b[i])

StrLeq(a, b) == a = b \/ StrLess(a, b)

\* The pieces of s between the characters of seps, empty pieces included.
RECURSIVE SplitOn(_, _)
SplitOn(s, seps) ==
    IF \A i \in 1..Len(s) : s[i] \notin seps THEN <<s>>
    ELSE LET i == CHOOSE j \in 1..Len(s) :
                      s[j] \in seps /\ \A k \in 1..(j - 1) : s[k] \notin seps
         IN  <<SubSeq(s, 1, i - 1)>> \o SplitOn(SubSeq(s, i + 1, Len(s)), seps)

\* Seq::filter on non-empty pieces
NonEmptyPieces(ps) == SelectSeq(ps, LAMBDA p : p # <<>>)

\* str::split_ascii_whitespace
SplitAsciiWhitespace(s) == NonEmptyPieces(SplitOn(s, AsciiWhitespace))

\* Path::components followed by as_os_str: a leading separator is the root
\* component "/", repeated and trailing separators are dropped.  (No path of
\* the model holds a "." or ".." segment.)
Components(p) ==
    (IF Len(p) > 0 /\ p[1] = Slash THEN <<<<Slash>>>> ELSE <<>>)
        \o NonEmptyPieces(SplitOn(p, {Slash}))

\* A vector sorted by sort(): the elements of the set S of strings in ascending order.
RECURSIVE SortStrings(_)
SortStrings(S) ==
    IF S = {} THEN <<>>
    ELSE LET m == CHOOSE x \in S : \A y \in S : StrLeq(x, y)
         IN  <<m>> \o SortStrings(S \ {m})

\* A vector of (tag, value) pairs sorted by sort_by_key(|(_, v)| v): ascending value,
\* equal values in their original order.
RECURSIVE SortByValue(_)
SortByValue(xs) ==
    IF xs = <<>> THEN <<>>
    ELSE LET i == CHOOSE j \in 1..Len(xs) :
                      /\ \A k \in 1..Len(xs) : StrLeq(xs[j][2], xs[k][2])
                      /\ \A k \in 1..(j - 1) : xs[k][2] # xs[j][2]
         IN  <<xs[i]>> \o SortByValue(SubSeq(xs, 1, i - 1) \o SubSeq(xs, i + 1, Len(xs)))

RECURSIVE Flatten(_)
Flatten(xss) == IF xss = <<>> THEN <<>> ELSE Head(xss) \o Flatten(Tail(xss))

\* All orders in which the elements of the finite set S can be enumerated.
RECURSIVE Orders(_)
Orders(S) ==
    IF S = {} THEN {<<>>}
    ELSE UNION {{<<x>> \o o : o \in Orders(S \ {x})} : x \in S}

(***************************************************************************)
(* Program constants.                                                      *)
(***************************************************************************)
\* DB_GD, DB_AOM, DB_FG, DB_FOA and TAGS_GD, TAGS_AOM, TAGS_FG, TAGS_FOA: a file
\* is named by the index of its pack.
Packs == 0..3

\* "records/items"
ITEMS_NS == <<114, 101, 99, 111, 114, 100, 115, 47, 105, 116, 101, 109, 115>>

LOOT_RANDOMIZER == "lootRandomizer"

\* DatabaseValue::String(tag)
DbString(tag) == [ty |-> "String", v |-> tag]

(***************************************************************************)
(* The record store handle (lib_gddb::arz::Database), as main.rs uses it.  *)
(* A store file holds a sequence of enumeration results.  An entry is      *)
(*   enumOk : whether enumeration yields Ok(raw) for it,                   *)
(*   idOk, id : the result of record_id(&raw),                             *)
(*   kind : raw.kind,                                                      *)
(*   resOk, tag, src : the result of resolve(raw): the record's            *)
(*     itemNameTag field (ty = "Missing" when it has none) and the pack    *)
(*     whose file holds this record's fields.                              *)
(***************************************************************************)
\* Database::record_id
RecordIdOk(raw) == raw.idOk

\* Database::resolve: Ok(Record {id, data}), the id being the record's identifier
Resolve(raw) ==
    [ok |-> raw.resOk, id |-> raw.id, kind |-> raw.kind,
     itemNameTag |-> raw.tag, src |-> raw.src]

\* Mutant: the field is compared by its text, whatever its type.
HasNameTag_Untyped(record, tag) ==
    record.itemNameTag.ty # "Missing" /\ record.itemNameTag.v = tag.v

\* record.data.get("itemNameTag") == Some(&tag)
HasNameTag(record, tag) == record.itemNameTag = tag

(***************************************************************************)
(* The scans.  A scan's result is [st, val]: st = "ok" with the value, or  *)
(* "exit1" (eprintln + process::exit(1)), or "panic" (an unwrap on Err).   *)
(***************************************************************************)
\* load_raws_by_xpac: the unwraps panic on an enumeration error
LoadRawsPanics(arz) ==
    \E i \in 1..Len(arz) : \E j \in 1..Len(arz[i].recs) : ~arz[i].recs[j].enumOk

load_raws_by_xpac(arz) == [i \in 1..Len(arz) |-> arz[i].recs]

\* The predicates the commands scan with: the closures of get_record,
\* lookup_item_ids and loot_table, each with the value it captures.
IdIs(needle) == [f |-> "id ==", arg |-> needle]
IdStartsWith(prefix) == [f |-> "id.starts_with", arg |-> prefix]
KindIs(kind) == [f |-> "raw.kind ==", arg |-> kind]

\* p(id, raw)
Holds(p, id, raw) ==
    CASE p.f = "id ==" -> id = p.arg
      [] p.f = "id.starts_with" -> StartsWith(id, p.arg)
      [] p.f = "raw.kind ==" -> raw.kind = p.arg

\* Mutant: a raw that does not resolve is dropped, as one without identifier is.
FilterMapResolve_DropErr(raws, p) ==
    LET kept == SelectSeq(raws, LAMBDA raw :
                    RecordIdOk(raw) /\ Holds(p, raw.id, raw) /\ Resolve(raw).ok)
    IN  [j \in 1..Len(kept) |-> Resolve(kept[j])]

\* The filter_map of records_by_xpac over one store's raws: the Results of resolve
\* for the raws whose identifier derives and passes p.
FilterMapResolve(raws, p) ==
    LET kept == SelectSeq(raws, LAMBDA raw : RecordIdOk(raw) /\ Holds(p, raw.id, raw))
    IN  [j \in 1..Len(kept) |-> Resolve(kept[j])]

\* collect::<Result<Vec<_>, _>>() of a sequence of Results
CollectOk(results) == \A j \in 1..Len(results) : results[j].ok

records_by_xpac(arz, p) ==
    IF LoadRawsPanics(arz) THEN [st |-> "panic", val |-> <<>>]
    ELSE LET raws == load_raws_by_xpac(arz)
             per  == [i \in 1..Len(raws) |-> FilterMapResolve(raws[i], p)]
         IN  IF \A i \in 1..Len(per) : CollectOk(per[i])
             THEN [st |-> "ok", val |-> per]
             ELSE [st |-> "exit1", val |-> <<>>]

iter_records(arz, p) ==
    LET r == records_by_xpac(arz, p)
    IN  [st |-> r.st, val |-> Flatten(r.val)]

\* The identifiers of one store's raws, as collect::<Result<Vec<_>, _>>() gives them.
StoreIds(raws) == [j \in 1..Len(raws) |-> raws[j].id]

StoreIdsOk(raws) == \A j \in 1..Len(raws) : RecordIdOk(raws[j])

iter_record_ids(arz) ==
    IF LoadRawsPanics(arz) THEN [st |-> "panic", val |-> <<>>]
    ELSE LET raws == load_raws_by_xpac(arz)
         IN  IF \A i \in 1..Len(raws) : StoreIdsOk(raws[i])
             THEN [st |-> "ok", val |-> Flatten([i \in 1..Len(raws) |-> StoreIds(raws[i])])]
             ELSE [st |-> "exit1", val |-> <<>>]

(***************************************************************************)
(* Output.  A line of stdout is [k, s, rec]: its kind, its text, and the   *)
(* records it displays.  A line of stderr is the name of its message.      *)
(***************************************************************************)
TextLine(k, s) == [k |-> k, s |-> s, rec |-> <<>>]
RecordLine(r) == [k |-> "record", s |-> <<>>, rec |-> <<r>>]

ScanErr(st) ==
    IF st = "panic" THEN <<"panic: load_raws_by_xpac">> ELSE <<"Error parsing database records">>

ScanExit(st) == IF st = "panic" THEN PanicCode ELSE 1

(***************************************************************************)
(* get_record, show, loot_table.  A command's result is [out, err, code]:  *)
(* the lines it prints, its diagnostics and the exit status of the process.*)
(***************************************************************************)
\* Mutant: "not found" ends the process with exit code 0.
get_record_exit0(arz, matches) ==
    LET needle == ToStringLossy(matches)
        found  == iter_records(arz, IdIs(needle))
    IN  IF found.st # "ok"
        THEN [st |-> "exit", rec |-> <<>>, err |-> ScanErr(found.st),
              code |-> ScanExit(found.st)]
        ELSE IF found.val = <<>>
        THEN [st |-> "exit", rec |-> <<>>, err |-> <<"not found">>, code |-> 0]
        ELSE [st |-> "ok", rec |-> <<found.val[Len(found.val)]>>,
              err |-> IF Len(found.val) > 1 THEN <<"WARN">> ELSE <<>>, code |-> 0]

\* Mutant: the first match is taken, not the last.
get_record_first(arz, matches) ==
    LET needle == ToStringLossy(matches)
        found  == iter_records(arz, IdIs(needle))
    IN  IF found.st # "ok"
        THEN [st |-> "exit", rec |-> <<>>, err |-> ScanErr(found.st),
              code |-> ScanExit(found.st)]
        ELSE IF found.val = <<>>
        THEN [st |-> "exit", rec |-> <<>>, err |-> <<"not found">>, code |-> 1]
        ELSE [st |-> "ok", rec |-> <<found.val[1]>>,
              err |-> IF Len(found.val) > 1 THEN <<"WARN">> ELSE <<>>, code |-> 0]

\* The result of get_record is [st, rec, err, code]: st = "ok" with the record in
\* rec, or st = "exit" with the exit status in code.
get_record(arz, matches) ==
    LET needle == ToStringLossy(matches)
        found  == iter_records(arz, IdIs(needle))
    IN  IF found.st # "ok"
        THEN [st |-> "exit", rec |-> <<>>, err |-> ScanErr(found.st),
              code |-> ScanExit(found.st)]
        ELSE IF found.val = <<>>
        THEN [st |-> "exit", rec |-> <<>>, err |-> <<"not found">>, code |-> 1]
        ELSE [st |-> "ok", rec |-> <<found.val[Len(found.val)]>>,
              err |-> IF Len(found.val) > 1 THEN <<"WARN">> ELSE <<>>, code |-> 0]

show(arz, record) ==
    LET got == get_record(arz, record)
    IN  IF got.st = "ok"
        THEN [out |-> <<RecordLine(got.rec[1])>>, err |-> got.err, code |-> 0]
        ELSE [out |-> <<>>, err |-> got.err, code |-> got.code]

\* Mutant: the scan for lootRandomizer records is never run.
loot_table_unscanned(arz, tags, record, difficulty) ==
    LET got == get_record(arz, record)
    IN  IF got.st # "ok"
        THEN [out |-> <<>>, err |-> got.err, code |-> got.code]
        ELSE [out |-> <<RecordLine(got.rec[1])>>, err |-> got.err, code |-> 0]

loot_table(arz, tags, record, difficulty) ==
    LET got     == get_record(arz, record)
        affixes == iter_records(arz, KindIs(LOOT_RANDOMIZER))
    IN  IF got.st # "ok"
        THEN [out |-> <<>>, err |-> got.err, code |-> got.code]
        ELSE IF affixes.st # "ok"
        THEN [out |-> <<>>, err |-> got.err \o ScanErr(affixes.st),
              code |-> ScanExit(affixes.st)]
        ELSE [out |-> <<RecordLine(got.rec[1])>>, err |-> got.err, code |-> 0]

(***************************************************************************)
(* lookup_item_ids, item.  A HashMap and a HashSet are iterated in an      *)
(* unspecified order, so both give a set of possible results.              *)
(***************************************************************************)
\* The keys of the tags whose value contains every part of the query.
PossibleTags(tags, item_parts) ==
    {tag \in DOMAIN tags :
        \A j \in 1..Len(item_parts) : StrContains(tags[tag], item_parts[j])}

\* possible_tags.iter().find(|(_, v)| **v == item)
FindExact(possible_tags, item) ==
    LET hits == {j \in 1..Len(possible_tags) : possible_tags[j][2] = item}
    IN  IF hits = {} THEN <<>>
        ELSE <<possible_tags[CHOOSE j \in hits : \A k \in hits : j <= k]>>

\* The identifiers of the item records named by tag: [st, val] as for a scan.
ItemRecordIds(arz, tag) ==
    LET scan == iter_records(arz, IdStartsWith(ITEMS_NS))
        kept == SelectSeq(scan.val, LAMBDA record : HasNameTag(record, DbString(tag)))
    IN  [st |-> scan.st, val |-> {kept[j].id : j \in 1..Len(kept)}]

\* lookup_item_ids with possible_tags filled in the order the HashMap gave: the
\* result is [st, name, ids, out, err, code], st = "ok" with (name, ids) or "exit".
LookupWith(arz, possible_tags, item) ==
    LET exact  == FindExact(possible_tags, item)
        chosen == IF Len(possible_tags) > 1 THEN exact ELSE possible_tags
        stop(out, err, code) ==
            [st |-> "exit", tag |-> "", name |-> <<>>, ids |-> {},
             out |-> out, err |-> err, code |-> code]
    IN  IF possible_tags = <<>>
        THEN stop(<<>>, <<"No matching items found">>, 0)
        ELSE IF chosen = <<>>
        THEN LET sorted == SortByValue(possible_tags)
             IN  stop(<<TextLine("multiple", <<>>)>>
                        \o [j \in 1..Len(sorted) |-> TextLine("candidate", sorted[j][2])],
                      <<>>, 0)
        ELSE LET tag  == chosen[Len(chosen)][1]
                 name == chosen[Len(chosen)][2]
                 ids  == ItemRecordIds(arz, tag)
             IN  IF ids.st # "ok"
                 THEN stop(<<>>, ScanErr(ids.st), ScanExit(ids.st))
                 ELSE [st |-> "ok", tag |-> tag, name |-> name, ids |-> ids.val,
                       out |-> <<>>, err |-> <<>>, code |-> 0]

lookup_item_ids(arz, tags, item) ==
    LET text       == ToStringLossy(item)
        item_parts == SplitAsciiWhitespace(text)
        cands      == PossibleTags(tags, item_parts)
    IN  {LookupWith(arz, [j \in 1..Len(o) |-> <<o[j], tags[o[j]]>>], text) :
            o \in Orders(cands)}

item(arz, tags, name) ==
    UNION {IF l.st # "ok"
           THEN {[out |-> l.out, err |-> l.err, code |-> l.code]}
           ELSE {[out |-> <<TextLine("referenced", l.name)>>
                            \o [j \in 1..Len(o) |-> TextLine("ref", o[j])],
                  err |-> <<>>, code |-> 0] : o \in Orders(l.ids)}
           : l \in lookup_item_ids(arz, tags, name)}

(***************************************************************************)
(* ls                                                                      *)
(***************************************************************************)
\* Path::strip_prefix: <<rest>> when the components of base begin those of path
StripPrefix(path, base) ==
    IF Len(base) <= Len(path) /\ SubSeq(path, 1, Len(base)) = base
    THEN <<SubSeq(path, Len(base) + 1, Len(path))>>
    ELSE <<>>

\* Mutant: the label of a directory gets no trailing '/'.
LsLabel_NoSlash(id, prefix) ==
    LET whole == Components(id)
        path  == IF prefix.some THEN StripPrefix(whole, Components(prefix.v))
                 ELSE <<whole>>
    IN  IF path = <<>> \/ path[1] = <<>> THEN <<>>
        ELSE <<ToStringLossy(path[1][1])>>

\* The closure of the filter_map of ls: <<label>>, or <<>> for None.
LsLabel(id, prefix) ==
    LET whole == Components(id)
        path  == IF prefix.some THEN StripPrefix(whole, Components(prefix.v))
                 ELSE <<whole>>
    IN  IF path = <<>> \/ path[1] = <<>> THEN <<>>
        ELSE LET next == ToStringLossy(path[1][1])
             IN  IF Len(path[1]) > 1 THEN <<Append(next, Slash)>> ELSE <<next>>

ls(arz, prefix) ==
    LET ids    == iter_record_ids(arz)
        nexts  == {LsLabel(ids.val[j], prefix)[1] :
                      j \in {i \in 1..Len(ids.val) : LsLabel(ids.val[i], prefix) # <<>>}}
        sorted == SortStrings(nexts)
    IN  IF ids.st # "ok"
        THEN [out |-> <<>>, err |-> ScanErr(ids.st), code |-> ScanExit(ids.st)]
        ELSE [out |-> [j \in 1..Len(sorted) |-> TextLine("path", sorted[j])],
              err |-> <<>>, code |-> 0]

(***************************************************************************)
(* open_dbs, read_item_tags.  fs_db[k] is the store file of pack k:        *)
(* [present, recs]; Database::open succeeds on the files that are present. *)
(* fs_tags[k] is the tag archive of pack k: [present, entry, parseOk,      *)
(* table]: the name of the entry it holds, and what tags::parse makes of it.*)
(***************************************************************************)
\* Mutant: a valid index selects all four store files.
SelectedDbs_All(xpac) ==
    IF ~xpac.some \/ xpac.v \in Packs THEN <<<<0, 1, 2, 3>>>> ELSE <<>>

\* The store files open_dbs tries, in order; <<>> stands for the fatal branch.
SelectedDbs(xpac) ==
    IF ~xpac.some THEN <<<<0, 1, 2, 3>>>>
    ELSE IF xpac.v \in Packs THEN <<<<xpac.v>>>>
    ELSE <<>>

\* The result is [st, dbs, err]: st = "ok" with the Selection Set, or "exit1".
open_dbs(fs, xpac) ==
    LET sel == SelectedDbs(xpac)
    IN  IF sel = <<>>
        THEN [st |-> "exit1", dbs |-> <<>>, err |-> <<"xpac must be 0, 1, 2, or 3">>]
        ELSE LET opened == SelectSeq(sel[1], LAMBDA k : fs[k].present)
                 stores == [i \in 1..Len(opened) |->
                               [pack |-> opened[i], recs |-> fs[opened[i]].recs]]
             IN  IF stores = <<>>
                 THEN [st |-> "exit1", dbs |-> <<>>,
                       err |-> <<"Could not read database files">>]
                 ELSE [st |-> "ok", dbs |-> stores, err |-> <<>>]

\* "tags_items.txt" for pack 0, "tagsgdx{i}_items.txt" for pack i > 0
TagFileName(i) == IF i > 0 THEN [base |-> "tagsgdx", n |-> i] ELSE [base |-> "tags", n |-> 0]

\* Mutant: a key already in acc keeps its value.
Extend_KeepFirst(acc, tags) ==
    [k \in DOMAIN acc \cup DOMAIN tags |-> IF k \in DOMAIN acc THEN acc[k] ELSE tags[k]]

\* acc.extend(tags)
Extend(acc, tags) ==
    [k \in DOMAIN acc \cup DOMAIN tags |-> IF k \in DOMAIN tags THEN tags[k] ELSE acc[k]]

RECURSIVE Reduce(_)
\* reduce(|acc, tags| acc.extend(tags)) over a non-empty sequence of tables
Reduce(tables) ==
    IF Len(tables) = 1 THEN tables[1]
    ELSE Extend(Reduce(SubSeq(tables, 1, Len(tables) - 1)), tables[Len(tables)])

\* The (i, arc) pairs that pass the filter_map of read_item_tags, as pack indices.
OpenedArchives(fs) == SelectSeq(<<0, 1, 2, 3>>, LAMBDA i : fs[i].present)

\* arc.get(filename).unwrap() and tags::parse(..).unwrap() succeed for pack i
TagsReadable(fs, i) == fs[i].entry = TagFileName(i) /\ fs[i].parseOk

\* The result is [st, tags]: st = "ok" with the Tag Table, "exit1" or "panic".
read_item_tags(fs) ==
    LET opened == OpenedArchives(fs)
    IN  IF \E j \in 1..Len(opened) : ~TagsReadable(fs, opened[j])
        THEN [st |-> "panic", tags |-> <<>>]
        ELSE IF opened = <<>>
        THEN [st |-> "exit1", tags |-> <<>>]
        ELSE [st |-> "ok", tags |-> Reduce([j \in 1..Len(opened) |-> fs[opened[j]].table])]

(***************************************************************************)
(* main: the process, one step per call.                                   *)
(***************************************************************************)
Exit(out, err, code) ==
    /\ pc' = "exit"
    /\ stdout' = stdout \o out
    /\ stderr' = stderr \o err
    /\ exit' = <<code>>

OpenDbs ==
    /\ pc = "open_dbs"
    /\ LET r == open_dbs(fs_db, args.xpac)
       IN  IF r.st = "ok"
           THEN /\ dbs' = r.dbs
                /\ pc' = "read_item_tags"
                /\ UNCHANGED <<stdout, stderr, exit>>
           ELSE /\ Exit(<<>>, r.err, 1)
                /\ UNCHANGED dbs
    /\ UNCHANGED <<fs_db, fs_tags, args, item_tags>>

ReadItemTags ==
    /\ pc = "read_item_tags"
    /\ LET r == read_item_tags(fs_tags)
       IN  IF r.st = "ok"
           THEN /\ item_tags' = r.tags
                /\ pc' = "cmd"
                /\ UNCHANGED <<stdout, stderr, exit>>
           ELSE /\ Exit(<<>>,
                        IF r.st = "panic" THEN <<"panic: read_item_tags">>
                        ELSE <<"Could not read tag files">>,
                        IF r.st = "panic" THEN PanicCode ELSE 1)
                /\ UNCHANGED item_tags
    /\ UNCHANGED <<fs_db, fs_tags, args, dbs>>

LootTable ==
    /\ pc = "cmd" /\ args.cmd = "loot-table"
    /\ LET r == loot_table(dbs, item_tags, args.text, args.difficulty)
       IN  Exit(r.out, r.err, r.code)
    /\ UNCHANGED <<fs_db, fs_tags, args, dbs, item_tags>>

Item ==
    /\ pc = "cmd" /\ args.cmd = "item"
    /\ \E r \in item(dbs, item_tags, args.text) : Exit(r.out, r.err, r.code)
    /\ UNCHANGED <<fs_db, fs_tags, args, dbs, item_tags>>

Ls ==
    /\ pc = "cmd" /\ args.cmd = "ls"
    /\ LET r == ls(dbs, [some |-> args.some, v |-> args.text])
       IN  Exit(r.out, r.err, r.code)
    /\ UNCHANGED <<fs_db, fs_tags, args, dbs, item_tags>>

Show ==
    /\ pc = "cmd" /\ args.cmd = "show"
    /\ LET r == show(dbs, args.text)
       IN  Exit(r.out, r.err, r.code)
    /\ UNCHANGED <<fs_db, fs_tags, args, dbs, item_tags>>

Next == OpenDbs \/ ReadItemTags \/ LootTable \/ Item \/ Ls \/ Show

(***************************************************************************)
(* Installations and command lines the process is started on.              *)
(***************************************************************************)
\* "records/items/a", "records/items/b", "records/itemsets/s", "records/skills/x"
ID_ITEM_A == ITEMS_NS \o <<47, 97>>
ID_ITEM_B == ITEMS_NS \o <<47, 98>>
ID_ITEMSET == ITEMS_NS \o <<101, 116, 115, 47, 115>>
ID_SKILL_X == <<114, 101, 99, 111, 114, 100, 115, 47, 115, 107, 105, 108, 108, 115, 47, 120>>
\* "records/z": the identifier of no record
ID_NONE == <<114, 101, 99, 111, 114, 100, 115, 47, 122>>

NoTag == [ty |-> "Missing", v |-> ""]

\* A well-formed record, one whose fields do not resolve, one whose identifier
\* does not derive, and an entry whose enumeration fails.
GoodRaw(id, kind, tag) ==
    [enumOk |-> TRUE, idOk |-> TRUE, id |-> id, kind |-> kind, resOk |-> TRUE,
     tag |-> tag, src |-> 0]
UnresolvedRaw(id, kind) == [GoodRaw(id, kind, NoTag) EXCEPT !.resOk = FALSE]
NoIdRaw(kind) == [GoodRaw(<<>>, kind, NoTag) EXCEPT !.idOk = FALSE]
EnumErrRaw == [NoIdRaw("") EXCEPT !.enumOk = FALSE]

\* A store file may take the entry r: identifiers are unique within a store.
Fits(recs, r) ==
    \A j \in 1..Len(recs) :
        /\ recs[j] # [r EXCEPT !.src = recs[j].src]
        /\ (recs[j].enumOk /\ recs[j].idOk /\ r.enumOk /\ r.idOk) => recs[j].id # r.id

\* The installations got from those of S by adding one entry of pool to a store file.
AddRec(S, pool) ==
    {[t[1] EXCEPT ![t[2]].recs = Append(@, [t[3] EXCEPT !.src = t[2]])] :
        t \in {t \in S \X Packs \X pool :
                             t[1][t[2]].present /\ Fits(t[1][t[2]].recs, t[3])}}

RECURSIVE Grow(_, _, _)
Grow(S, pool, n) == IF n = 0 THEN S ELSE S \cup Grow(AddRec(S, pool), pool, n - 1)

\* The installations whose present store files are one of patterns and hold at
\* most MaxRecs entries of pool together.
Installs(patterns, pool) ==
    Grow({[k \in Packs |-> [present |-> k \in P, recs |-> <<>>]] : P \in patterns},
         pool, MaxRecs)

\* Tag archives: absent, holding its pack's table, holding no entry of that
\* name, holding an entry that does not parse.
NoArchive == [present |-> FALSE, entry |-> TagFileName(0), parseOk |-> TRUE, table |-> <<>>]
GoodArchive(i) == [NoArchive EXCEPT !.present = TRUE, !.entry = TagFileName(i)]
NoEntryArchive == [NoArchive EXCEPT !.present = TRUE, !.entry = [base |-> "other", n |-> 0]]
UnparsedArchive(i) == [GoodArchive(i) EXCEPT !.parseOk = FALSE]

AddTag(S, keys, values) ==
    {[t[1] EXCEPT ![t[2]].table = Extend(@, [x \in {t[3]} |-> t[4]])] :
        t \in {u \in S \X Packs \X keys \X values :
                  /\ u[1][u[2]] = [GoodArchive(u[2]) EXCEPT !.table = u[1][u[2]].table]
                  /\ u[3] \notin DOMAIN u[1][u[2]].table}}

RECURSIVE GrowTags(_, _, _, _)
GrowTags(S, keys, values, n) ==
    IF n = 0 THEN S ELSE S \cup GrowTags(AddTag(S, keys, values), keys, values, n - 1)

\* The tag archives of an installation: pack k is one of kinds[k] (0 absent,
\* 1 well-formed, 2 without its entry, 3 unparseable), the tables hold at most
\* MaxTags entries together.
TagInstalls(kinds, keys, values) ==
    GrowTags({[k \in Packs |-> CASE f[k] = 0 -> NoArchive
                                  [] f[k] = 1 -> GoodArchive(k)
                                  [] f[k] = 2 -> NoEntryArchive
                                  [] OTHER    -> UnparsedArchive(k)] : f \in kinds},
             keys, values, MaxTags)

NoXpac == [some |-> FALSE, v |-> 0]
Xpac(n) == [some |-> TRUE, v |-> n]

Cmd(xpac, cmd, some, text, difficulty, vendor) ==
    [xpac |-> xpac, cmd |-> cmd, some |-> some, text |-> text,
     difficulty |-> difficulty, vendor |-> vendor]

ShowCmd(xpac, path) == Cmd(xpac, "show", TRUE, path, "Ultimate", FALSE)
ItemCmd(xpac, name) == Cmd(xpac, "item", TRUE, name, "Ultimate", FALSE)
LsCmd(xpac, path) == Cmd(xpac, "ls", TRUE, path, "Ultimate", FALSE)
LsAll(xpac) == Cmd(xpac, "ls", FALSE, <<>>, "Ultimate", FALSE)
LootCmds(xpac, path) ==
    {Cmd(xpac, "loot-table", TRUE, path, d, v) :
        d \in {"Normal", "Elite", "Ultimate"}, v \in BOOLEAN}

\* "ab", "ab c", "c  ab" (two spaces), "b", " ab", "zz"
S_AB == <<97, 98>>
S_AB_C == <<97, 98, 32, 99>>
S_C_AB == <<99, 32, 32, 97, 98>>
S_B == <<98>>
S_SP_AB == <<32, 97, 98>>
S_ZZ == <<122, 122>>

\* The state main starts in.
Start(installs, archives, cmds) ==
    /\ fs_db \in installs
    /\ fs_tags \in archives
    /\ args \in cmds
    /\ pc = "open_dbs"
    /\ dbs = <<>>
    /\ item_tags = <<>>
    /\ stdout = <<>>
    /\ stderr = <<>>
    /\ exit = <<>>

AllPatterns == SUBSET Packs

\* One base-game archive holding t1 -> "ab".
PlainArchives ==
    {[k \in Packs |-> IF k = 0 THEN [GoodArchive(0) EXCEPT !.table = [x \in {"t1"} |-> S_AB]]
                      ELSE NoArchive]}

(***************************************************************************)
(* Scans over the Selection Set: show, loot-table and the two scans.       *)
(***************************************************************************)
ScanPool ==
    {GoodRaw(ID_ITEM_A, "item", NoTag), UnresolvedRaw(ID_ITEM_A, "item"),
     GoodRaw(ID_SKILL_X, LOOT_RANDOMIZER, NoTag), UnresolvedRaw(ID_SKILL_X, LOOT_RANDOMIZER),
     NoIdRaw("item"), EnumErrRaw}

ScanCmds ==
    {ShowCmd(NoXpac, ID_ITEM_A), ShowCmd(NoXpac, ID_NONE), ShowCmd(Xpac(2), ID_ITEM_A),
     ShowCmd(NoXpac, ID_ITEM_A \o <<InvalidUnit>>),
     ItemCmd(NoXpac, S_AB), ItemCmd(NoXpac, S_ZZ), LsAll(NoXpac),
     Cmd(NoXpac, "loot-table", TRUE, ID_NONE, "Ultimate", FALSE)}
        \cup LootCmds(NoXpac, ID_ITEM_A)

ScanPatterns == {Packs, {0, 2}, {1}}

InitScan == Start(Installs(ScanPatterns, ScanPool), PlainArchives, ScanCmds)

SpecScan == InitScan /\ [][Next]_vars

(***************************************************************************)
(* Vocabulary of the properties.                                           *)
(***************************************************************************)
StartupMsgs ==
    {"xpac must be 0, 1, 2, or 3", "Could not read database files",
     "Could not read tag files", "panic: read_item_tags"}

\* The process has ended, and it got as far as running the command cmd.
CmdRan(cmd) ==
    /\ pc = "exit"
    /\ args.cmd = cmd
    /\ \A j \in 1..Len(stderr) : stderr[j] \notin StartupMsgs

\* The entries of the Selection Set, as (store, position) pairs.
Entries == UNION {{<<i, j>> : j \in 1..Len(dbs[i].recs)} : i \in 1..Len(dbs)}
Entry(e) == dbs[e[1]].recs[e[2]]

EnumFails == \E e \in Entries : ~Entry(e).enumOk
IdFails == \E e \in Entries : Entry(e).enumOk /\ ~Entry(e).idOk

\* The entries that are records with identifier x, and the stores holding one.
RecordsWith(x) == {e \in Entries : Entry(e).enumOk /\ Entry(e).idOk /\ Entry(e).id = x}
StoresWith(x) == {e[1] : e \in RecordsWith(x)}

\* The identifier a show or loot-table command asks for.
Needle == ToStringLossy(args.text)

Aborted == pc = "exit" /\ exit # <<0>> /\ stdout = <<>>

(***************************************************************************)
(* C1: during any scan over the Selection Set (the predicate scan of show, *)
(* item and loot-table, the identifier scan of ls), if identifier          *)
(* derivation fails for an enumerated raw record the command aborts with a *)
(* nonzero exit and no result: such a record is never silently omitted.    *)
(* Fails: records_by_xpac drops the record (.ok()?) and carries on.        *)
(***************************************************************************)
\* C1 as stated: a failing identifier derivation aborts show, loot-table, ls and the
\* scan of item with a nonzero exit and no result.
C1_IdFailureIsFatal ==
    /\ \A c \in {"show", "loot-table", "ls"} : (CmdRan(c) /\ IdFails) => Aborted
    /\ (CmdRan("item") /\ IdFails) =>
           \A j \in 1..Len(stdout) : stdout[j].k \notin {"referenced", "ref"}

(***************************************************************************)
(* C3: every lookup-empty outcome ends the process with exit code 0 after  *)
(* a report on the diagnostic stream, both when no record has the          *)
(* requested identifier (show, loot-table) and when no tag value contains  *)
(* all query tokens (item).                                                *)
(***************************************************************************)
\* The tokens of a query: its maximal runs of characters that are not whitespace.
Tokens(s) ==
    {SubSeq(s, a, b) : <<a, b>> \in
        {t \in (1..Len(s)) \X (1..Len(s)) :
            /\ t[1] <= t[2]
            /\ \A i \in t[1]..t[2] : s[i] \notin AsciiWhitespace
            /\ (t[1] = 1 \/ s[t[1] - 1] \in AsciiWhitespace)
            /\ (t[2] = Len(s) \/ s[t[2] + 1] \in AsciiWhitespace)}}

\* b occurs in a
Occurs(b, a) ==
    \E i \in 1..(Len(a) - Len(b) + 1) : \A k \in 1..Len(b) : a[i + k - 1] = b[k]

\* The tag keys whose value contains every token of the query.
Candidates == {k \in DOMAIN item_tags :
                  \A t \in Tokens(ToStringLossy(args.text)) : Occurs(t, item_tags[k])}

RecordLookupEmpty ==
    /\ \E c \in {"show", "loot-table"} : CmdRan(c)
    /\ ~EnumFails
    /\ RecordsWith(Needle) = {}

TagLookupEmpty == CmdRan("item") /\ Candidates = {}

\* C3 as stated: a lookup that finds nothing ends with exit code 0.
C3_Original ==
    (RecordLookupEmpty \/ TagLookupEmpty) => (exit = <<0>> /\ stderr # <<>>)

\* C3 as amended: no tag match ends with exit code 0, no record match with exit code 1,
\* each after its report on the diagnostic stream and with nothing printed.
C3_LookupEmpty ==
    /\ TagLookupEmpty =>
           (exit = <<0>> /\ stderr = <<"No matching items found">> /\ stdout = <<>>)
    /\ RecordLookupEmpty =>
           (exit = <<1>> /\ stderr = <<"not found">> /\ stdout = <<>>)

C3_Witness == RecordLookupEmpty /\ dbs # <<>> /\ Entries # {} /\ exit = <<1>>

(***************************************************************************)
(* C4: show x over a Selection Set in which two or more stores hold a      *)
(* record with identifier x never aborts, warns on the diagnostic stream,  *)
(* and prints the record of the last such store in selection order.        *)
(***************************************************************************)
LastStoreWith(x) == CHOOSE i \in StoresWith(x) : \A k \in StoresWith(x) : k <= i

PrintsLatest ==
    /\ exit = <<0>>
    /\ stderr = <<"WARN">>
    /\ Len(stdout) = 1
    /\ stdout[1].k = "record"
    /\ stdout[1].rec[1].id = Needle
    /\ stdout[1].rec[1].src = dbs[LastStoreWith(Needle)].pack

Duplicated == CmdRan("show") /\ Cardinality(StoresWith(Needle)) >= 2

\* C4 as stated: show of a duplicated identifier never aborts, warns, and prints
\* the record of the last store holding it.
C4_Original == Duplicated => PrintsLatest

AllResolve(x) == \A e \in RecordsWith(x) : Entry(e).resOk

\* C4 as amended: ... provided every store enumerates and every record with
\* identifier x resolves; otherwise the command aborts with a nonzero exit.
C4_ShowDuplicate ==
    Duplicated => IF ~EnumFails /\ AllResolve(Needle) THEN PrintsLatest ELSE Aborted

C4_Witness ==
    /\ Duplicated
    /\ PrintsLatest
    /\ LastStoreWith(Needle) < Len(dbs)
    /\ \E i \in 1..Len(dbs) : i \notin StoresWith(Needle) /\ i < LastStoreWith(Needle)

(***************************************************************************)
(* C9: for every identifier x the identifier scan produces, the predicate  *)
(* scan with id == x over the same Selection Set accepts x and yields      *)
(* exactly one resolved record for each store that holds x and none for    *)
(* the others.                                                             *)
(***************************************************************************)
\* The predicate scan for x yields one record per store holding x, none for the rest.
OnePerStore(x) ==
    LET r == records_by_xpac(dbs, IdIs(x))
    IN  /\ r.st = "ok"
        /\ Len(r.val) = Len(dbs)
        /\ \A i \in 1..Len(dbs) :
               /\ Len(r.val[i]) = IF i \in StoresWith(x) THEN 1 ELSE 0
               /\ \A j \in 1..Len(r.val[i]) :
                      r.val[i][j].id = x /\ r.val[i][j].src = dbs[i].pack

ScannedIds == LET ids == iter_record_ids(dbs) IN IF ids.st = "ok" THEN Range(ids.val) ELSE {}

\* C9 as stated: every scanned identifier yields one record per store holding it.
C9_Original == \A x \in ScannedIds : OnePerStore(x)

\* C9 as amended: ... provided every record with identifier x resolves; if one does
\* not, the predicate scan ends the process with exit code 1.
C9_RoundTrip ==
    \A x \in ScannedIds :
        IF AllResolve(x) THEN OnePerStore(x)
        ELSE records_by_xpac(dbs, IdIs(x)).st = "exit1"

C9_Witness ==
    /\ CmdRan("show")
    /\ exit = <<0>>
    /\ Needle \in ScannedIds
    /\ Cardinality(StoresWith(Needle)) >= 2
    /\ Cardinality(StoresWith(Needle)) < Len(dbs)
    /\ ScannedIds # {Needle}

(***************************************************************************)
(* C10: the outcome of loot-table x (standard output and exit status) is   *)
(* that of show x over the same Selection Set, for every difficulty and    *)
(* vendor flag: the gathered lootRandomizer records have no effect.        *)
(***************************************************************************)
SameAsShow ==
    LET s == show(dbs, args.text)
    IN  stdout = s.out /\ exit = <<s.code>>

AffixFails ==
    \E e \in Entries :
        /\ Entry(e).enumOk /\ Entry(e).idOk
        /\ Entry(e).kind = LOOT_RANDOMIZER /\ ~Entry(e).resOk

OpenCmds ==
    UNION {{ShowCmd(x, ID_ITEM_A), LsAll(x), ItemCmd(x, S_ZZ),
            Cmd(x, "loot-table", TRUE, ID_ITEM_A, "Elite", TRUE)} :
              x \in {NoXpac} \cup {Xpac(n) : n \in 0..4}}

InitOpen ==
    Start(Installs(AllPatterns, {GoodRaw(ID_ITEM_A, "item", NoTag)}), PlainArchives, OpenCmds)

SpecOpen == InitOpen /\ [][Next]_vars

(***************************************************************************)
(* C6: for a valid expansion index option (absent, 0, 1, 2, 3) open_dbs    *)
(* succeeds whenever at least one of the four store files opens, fails     *)
(* with a nonzero exit if none opens, and the Selection Set is not empty   *)
(* whenever it returns.                                                    *)
(***************************************************************************)
ValidXpac == ~args.xpac.some \/ args.xpac.v \in Packs

OpenDbsDone == pc # "open_dbs"

OpenDbsFailed ==
    pc = "exit" /\ exit = <<1>> /\ stdout = <<>> /\ stderr = <<"Could not read database files">>

OpenDbsReturned == OpenDbsDone /\ ~OpenDbsFailed /\ stderr # <<"xpac must be 0, 1, 2, or 3">>

\* C6 as stated: open_dbs succeeds iff one of the four store files opens.
C6_Original ==
    (OpenDbsDone /\ ValidXpac) =>
        /\ (\E k \in Packs : fs_db[k].present) => OpenDbsReturned
        /\ (\A k \in Packs : ~fs_db[k].present) => OpenDbsFailed
        /\ OpenDbsReturned => dbs # <<>>

\* The store files the option selects: all four, or the one of the pack named.
Selected == IF args.xpac.some THEN {args.xpac.v} ELSE Packs

\* C6 as amended: open_dbs succeeds whenever at least one of the store files the
\* option selects (all four when absent, the file of pack n for index n) opens, and
\* fails with exit code 1 if none of these opens; whenever it returns, the Selection
\* Set is not empty: it holds the selected files that open, in ascending pack order.
C6_OpenDbs ==
    (OpenDbsDone /\ ValidXpac) =>
        /\ (\E k \in Selected : fs_db[k].present) => OpenDbsReturned
        /\ (\A k \in Selected : ~fs_db[k].present) => OpenDbsFailed
        /\ OpenDbsReturned =>
               /\ dbs # <<>>
               /\ {dbs[i].pack : i \in 1..Len(dbs)} = {k \in Selected : fs_db[k].present}
               /\ \A i \in 1..Len(dbs) :
                      /\ dbs[i].recs = fs_db[dbs[i].pack].recs
                      /\ \A j \in 1..(i - 1) : dbs[j].pack < dbs[i].pack

C6_Witness ==
    /\ OpenDbsFailed
    /\ args.xpac = Xpac(1)
    /\ fs_db[0].present /\ fs_db[2].present /\ ~fs_db[1].present

(***************************************************************************)
(* Loading the tag tables: every kind of archive for every pack.           *)
(***************************************************************************)
TagCmds == {ShowCmd(NoXpac, ID_ITEM_A), LsAll(NoXpac), ItemCmd(NoXpac, S_B),
            Cmd(NoXpac, "loot-table", TRUE, ID_ITEM_A, "Normal", FALSE)}

OneStore ==
    {[k \in Packs |-> [present |-> k = 0,
                       recs |-> IF k = 0 THEN <<GoodRaw(ID_ITEM_A, "item", DbString("t1"))>>
                                ELSE <<>>]]}

InitTags ==
    Start(OneStore, TagInstalls([Packs -> 0..3], {"t1", "t2"}, {S_AB, S_B}), TagCmds)

SpecTags == InitTags /\ [][Next]_vars

(***************************************************************************)
(* C7: the Tag Table maps each key to the value given by the highest pack  *)
(* (0..3) that is present and defines the key; packs whose resource is     *)
(* missing are skipped without error and without shifting the index that   *)
(* names the other packs' entries; the loader exits fatally iff no pack    *)
(* resource could be opened.                                               *)
(***************************************************************************)
ReadItemTagsDone == pc \in {"cmd", "exit"} /\ dbs # <<>>

LoaderExit1 ==
    pc = "exit" /\ exit = <<1>> /\ stdout = <<>> /\ stderr = <<"Could not read tag files">>
LoaderPanic ==
    pc = "exit" /\ exit = <<PanicCode>> /\ stdout = <<>> /\ stderr = <<"panic: read_item_tags">>

PresentPacks == {k \in Packs : fs_tags[k].present}

\* The packs that are present and define key
Defining(key) == {k \in PresentPacks : key \in DOMAIN fs_tags[k].table}

\* Each key has the value of the highest present pack defining it.
HighestPackWins ==
    /\ DOMAIN item_tags = UNION {DOMAIN fs_tags[k].table : k \in PresentPacks}
    /\ \A key \in DOMAIN item_tags :
           \E k \in Defining(key) :
               /\ \A m \in Defining(key) : m <= k
               /\ item_tags[key] = fs_tags[k].table[key]

\* C7 as stated: the highest present pack wins, and the loader ends the process
\* iff no pack resource opens.
C7_Original ==
    ReadItemTagsDone =>
        /\ (LoaderExit1 \/ LoaderPanic) <=> PresentPacks = {}
        /\ ~(LoaderExit1 \/ LoaderPanic) => HighestPackWins

\* The archive of a present pack lacks the entry named after the pack, or the entry
\* does not parse.
Unreadable(k) ==
    fs_tags[k].present /\ ~(fs_tags[k].entry = TagFileName(k) /\ fs_tags[k].parseOk)

\* C7 as amended: ... the loader exits with code 1 iff no pack resource could be
\* opened, and panics iff an opened pack's archive lacks the entry named after the
\* pack or holds one that does not parse.
C7_TagTable ==
    ReadItemTagsDone =>
        /\ LoaderExit1 <=> PresentPacks = {}
        /\ LoaderPanic <=> \E k \in Packs : Unreadable(k)
        /\ ~(LoaderExit1 \/ LoaderPanic) => HighestPackWins

C7_Witness ==
    /\ pc = "cmd"
    /\ PresentPacks = {1, 3}
    /\ "t1" \in DOMAIN fs_tags[1].table /\ "t1" \in DOMAIN fs_tags[3].table
    /\ fs_tags[1].table["t1"] # fs_tags[3].table["t1"]
    /\ item_tags["t1"] = fs_tags[3].table["t1"]

(***************************************************************************)
(* The item command: tag tables of the base game, item records in two      *)
(* stores.                                                                 *)
(***************************************************************************)
OtherTyped(tag) == [ty |-> "Other", v |-> tag]

ItemPool ==
    {GoodRaw(ID_ITEM_A, "item", DbString("t1")),
     GoodRaw(ID_ITEM_B, "item", DbString("t2")), GoodRaw(ID_ITEM_A, "item", NoTag),
     GoodRaw(ID_ITEM_B, "item", OtherTyped("t1")), GoodRaw(ID_ITEMSET, "set", DbString("t1")),
     GoodRaw(ID_SKILL_X, "skill", DbString("t1")), UnresolvedRaw(ID_ITEM_B, "item")}

ItemCmds ==
    {ItemCmd(NoXpac, S_AB), ItemCmd(NoXpac, S_B), ItemCmd(NoXpac, S_C_AB),
     ItemCmd(NoXpac, S_SP_AB), ItemCmd(NoXpac, S_ZZ),
     ShowCmd(NoXpac, ID_ITEM_A), LsAll(NoXpac),
     Cmd(NoXpac, "loot-table", TRUE, ID_ITEM_A, "Normal", FALSE)}

BaseArchiveOnly == {[k \in Packs |-> IF k = 0 THEN 1 ELSE 0]}

InitItem ==
    Start(Installs({{0, 1}}, ItemPool),
          TagInstalls(BaseArchiveOnly, {"t1", "t2"}, {S_AB, S_AB_C}), ItemCmds)

SpecItem == InitItem /\ [][Next]_vars

(***************************************************************************)
(* C2: the candidates are the (key, value) pairs whose value contains      *)
(* every whitespace-separated token of the query; a single candidate is    *)
(* the answer; among several, the query resolves to a tag key only if      *)
(* exactly one candidate's value equals the whole query text, and in every *)
(* other case no key is chosen: the candidate values are listed in         *)
(* ascending order and the process exits 0 without scanning any store.     *)
(* Fails: with two candidates whose values both equal the query, find      *)
(* takes whichever the HashMap yields first.                               *)
(***************************************************************************)
QueryText == ToStringLossy(args.text)

ExactCandidates == {k \in Candidates : item_tags[k] = QueryText}

\* The lines of stdout of kind k, in order.
LinesOf(k) == SelectSeq(stdout, LAMBDA line : line.k = k)

\* The candidate values are listed in ascending order, nothing else is printed or
\* scanned, and the process exits 0.
ListsCandidates ==
    /\ exit = <<0>>
    /\ stderr = <<>>
    /\ Len(stdout) = Cardinality(Candidates) + 1
    /\ stdout[1].k = "multiple"
    /\ \A j \in 2..Len(stdout) : stdout[j].k = "candidate"
    /\ \A k \in Candidates :
           Cardinality({j \in 2..Len(stdout) : stdout[j].s = item_tags[k]})
               = Cardinality({m \in Candidates : item_tags[m] = item_tags[k]})
    /\ \A j \in 2..(Len(stdout) - 1) :
           stdout[j].s = stdout[j + 1].s \/ StrLess(stdout[j].s, stdout[j + 1].s)

\* The query resolved to the tag key k: the references of k are what is printed.
ResolvedTo(k) ==
    /\ Len(stdout) >= 1
    /\ stdout[1] = TextLine("referenced", item_tags[k])

\* C2 as stated: one candidate is the answer; among several the only exact match
\* is; otherwise the candidates are listed in ascending order with exit code 0.
C2_Disambiguation ==
    (CmdRan("item") /\ ~EnumFails) =>
        /\ Cardinality(Candidates) = 1 =>
               (\A k \in Candidates : ResolvedTo(k) \/ Aborted)
        /\ (Cardinality(Candidates) > 1 /\ Cardinality(ExactCandidates) = 1) =>
               (\A k \in ExactCandidates : ResolvedTo(k) \/ Aborted)
        /\ (Cardinality(Candidates) > 1 /\ Cardinality(ExactCandidates) # 1) =>
               ListsCandidates

(***************************************************************************)
(* C8: for a resolved tag key k the reference set of item is exactly the   *)
(* set of identifiers of the records, in any store of the Selection Set,   *)
(* whose identifier begins with the items namespace and whose resolved     *)
(* itemNameTag is the string k; an identifier found in several stores      *)
(* appears once.                                                           *)
(***************************************************************************)
InItems(id) ==
    /\ Len(id) >= Len(ITEMS_NS)
    /\ \A i \in 1..Len(ITEMS_NS) : id[i] = ITEMS_NS[i]

References(k) ==
    {Entry(e).id : e \in {e \in Entries :
        /\ Entry(e).enumOk /\ Entry(e).idOk
        /\ InItems(Entry(e).id)
        /\ Entry(e).tag.ty = "String" /\ Entry(e).tag.v = k}}

\* The identifiers item printed.
PrintedRefs == LinesOf("ref")

\* The keys the query can have resolved to.
Resolvable ==
    IF Cardinality(Candidates) = 1 THEN Candidates ELSE ExactCandidates

ItemAnswered == CmdRan("item") /\ LinesOf("referenced") # <<>>

\* C8: item prints, once each, exactly the identifiers of the items-namespace
\* records whose resolved itemNameTag is the string k the query resolved to.
C8_References ==
    ItemAnswered =>
        \E k \in Resolvable :
            /\ ResolvedTo(k)
            /\ Len(stdout) = Len(PrintedRefs) + 1
            /\ {PrintedRefs[j].s : j \in 1..Len(PrintedRefs)} = References(k)
            /\ Len(PrintedRefs) = Cardinality(References(k))

C8_Witness ==
    /\ ItemAnswered
    /\ Len(PrintedRefs) = 1
    /\ Cardinality({e \in Entries : Entry(e).id = PrintedRefs[1].s
                                       /\ Entry(e).tag = DbString("t1")}) = 2
    /\ \E e \in Entries : InItems(Entry(e).id) /\ Entry(e).tag # DbString("t1")

(***************************************************************************)
(* The ls command: identifiers in two stores, every shape of prefix.       *)
(***************************************************************************)
\* "records", "items", "rec"
S_RECORDS == <<114, 101, 99, 111, 114, 100, 115>>
S_ITEMS == <<105, 116, 101, 109, 115>>
S_REC == <<114, 101, 99>>

\* "", "rec", "records", "records/", "/records", "records/item", "records/items",
\* "records//items", "records/items/", "records/items/a", and "records" followed
\* by a unit that is not Unicode
LsPrefixes ==
    {<<>>, S_REC, S_RECORDS \o <<InvalidUnit>>, S_RECORDS, S_RECORDS \o <<47>>, <<47>> \o S_RECORDS,
     S_RECORDS \o <<47, 105, 116, 101, 109>>, ITEMS_NS, S_RECORDS \o <<47, 47>> \o S_ITEMS,
     ITEMS_NS \o <<47>>, ID_ITEM_A}

LsPool ==
    {GoodRaw(ID_ITEM_A, "item", NoTag), GoodRaw(ID_ITEM_B, "item", NoTag),
     GoodRaw(ID_SKILL_X, "skill", NoTag), GoodRaw(S_RECORDS, "root", NoTag), NoIdRaw("item")}

LsCmds ==
    {LsCmd(NoXpac, p) : p \in LsPrefixes}
        \cup {LsAll(NoXpac), ShowCmd(NoXpac, ID_ITEM_A), ItemCmd(NoXpac, S_AB),
              Cmd(NoXpac, "loot-table", TRUE, ID_ITEM_A, "Normal", FALSE)}

InitLs == Start(Installs({{0, 1}}, LsPool), PlainArchives, LsCmds)

SpecLs == InitLs /\ [][Next]_vars

(***************************************************************************)
(* C5: ls prints, for the identifiers that have the prefix as a prefix of  *)
(* whole path segments (all of them without a prefix), the first segment   *)
(* after the prefix, followed by '/' iff more segments follow it; an       *)
(* identifier equal to the prefix gives nothing; the labels are printed    *)
(* once each, in ascending order.                                          *)
(***************************************************************************)
\* The maximal runs of characters of s other than '/', as (first, last) positions.
Runs(s) ==
    LET starts == {a \in 1..Len(s) : s[a] # Slash /\ (a = 1 \/ s[a - 1] = Slash)}
        ends   == {b \in 1..Len(s) : s[b] # Slash /\ (b = Len(s) \/ s[b + 1] = Slash)}
    IN  {<<a, CHOOSE b \in ends : a <= b /\ \A c \in ends : a <= c => b <= c>> : a \in starts}

\* The path segments of s in order; a path that begins with '/' has the root as its
\* first segment.
Segments(s) ==
    LET runs   == Runs(s)
        nth(n) == CHOOSE t \in runs : Cardinality({u \in runs : u[1] < t[1]}) = n - 1
        names  == [n \in 1..Cardinality(runs) |-> SubSeq(s, nth(n)[1], nth(n)[2])]
    IN  IF s # <<>> /\ s[1] = Slash THEN <<<<Slash>>>> \o names ELSE names

\* The segments of the prefix asked for: none without a prefix.
PrefixSegments == IF args.some THEN Segments(args.text) ELSE <<>>

\* The labels of the children of the prefix.
Children ==
    LET pre  == PrefixSegments
        segs == [e \in Entries |-> Segments(Entry(e).id)]
        under == {e \in Entries :
                     /\ Len(segs[e]) > Len(pre)
                     /\ \A n \in 1..Len(pre) : segs[e][n] = pre[n]}
    IN  {IF Len(segs[e]) > Len(pre) + 1
         THEN segs[e][Len(pre) + 1] \o <<Slash>>
         ELSE segs[e][Len(pre) + 1] : e \in under}

\* C5: ls prints exactly the labels of the children of the prefix, once each, in
\* ascending order.
C5_Ls ==
    (CmdRan("ls") /\ ~EnumFails /\ ~IdFails) =>
        /\ exit = <<0>>
        /\ stderr = <<>>
        /\ \A j \in 1..Len(stdout) : stdout[j].k = "path"
        /\ {stdout[j].s : j \in 1..Len(stdout)} = Children
        /\ \A j \in 1..(Len(stdout) - 1) : StrLess(stdout[j].s, stdout[j + 1].s)

\* ls "records/items" over records/items/a (in both stores) and records/items/b
\* prints a, b.
C5_Witness ==
    /\ CmdRan("ls")
    /\ args.some /\ args.text = ITEMS_NS
    /\ Len(stdout) = 2
    /\ stdout[1].s = <<97>> /\ stdout[2].s = <<98>>
    /\ Cardinality(RecordsWith(ID_ITEM_A)) = 2

====
